---- MODULE Spec2Model ----
(***************************************************************************)
(* divvy: the broadcast Topic (src/progress.rs), its forwarding threads,   *)
(* the ProgressTx transmitter and the Switch cancellation flag             *)
(* (src/switch.rs).                                                        *)
(*                                                                         *)
(* Channels are crossbeam unbounded channels: a send appends to the        *)
(* channel's queue and fails only when the receiving side is gone; a       *)
(* receive takes the head, blocks on an empty queue while a sender is      *)
(* left, and reports disconnection on an empty queue without senders.      *)
(***************************************************************************)
EXTENDS Integers, Sequences, FiniteSets, TLC

\* ---------------------------------------------------------------- bounds
\* Calls made in one run that create a handle or send a value (subscribe,
\* add_publisher, clone, Switch::off, ProgressTx::new and dummy, send).
MaxOps == 6

\* The same, in the runs that use transmitters and switches.
TxOps == 5

\* The same, in the runs checked for progress under fair scheduling.
LiveOps == 5

Slots == 1..MaxOps
Pubs == 1..MaxOps

\* The channel of a dummy transmitter: its Receiver is dropped at once.
Orphan == 0

\* Arguments given to ProgressTx::send; None stands for an absent percent.
None == -1
PctInputs == {None, 7, 255}
MsgInputs == {"", "loading"}

\* The report sent directly on publisher endpoints.
Payloads == { [pct |-> 7, msg |-> "loading"] }

\* What a forwarding thread holds between two publications.
NoItem == [pub |-> Orphan, seq |-> 0, val |-> [pct |-> 0, msg |-> ""]]

VARIABLES
    topic,          \* "live" | "locked" (inside subscribe, lock held) | "dropped"
    subscribers,    \* Topic.subscribers: the Vec<Sender<T>>, as slot ids
    lock,           \* owner of the Mutex around the Vec
    nslots,         \* channels created by subscribe() so far
    rxDropped,      \* slots whose Receiver has been dropped
    buf,            \* buf[s]: queue of the subscriber channel s
    got,            \* got[s]: what subscriber s has taken out of its channel
    eos,            \* slots whose receive has reported disconnection
    held,           \* held[p]: Sender handles of publisher p held by callers
    chan,           \* chan[p]: queue of publisher p's private channel
    nsent,          \* nsent[p]: sends accepted on publisher p's channel
    pc,             \* pc[p]: position of publisher p's forwarding thread
    item,           \* item[p]: the publication the thread is fanning out
    idx,            \* idx[p]: the cursor i of send_or_remove
    passes,         \* passes[p]: fan-out passes thread p has started
    pass,           \* the pass in progress: collection and dropped receivers
                    \* at lock time, slots tried so far
    flag,           \* flag[c]: the AtomicBool behind the switches of cell c
    switches,       \* Switch handles held by callers
    flipped,        \* switch families on which flip_on has been called
    txs,            \* the ProgressTx values alive
    lost,           \* reports send_report discarded after a failed send
    viaDummy,       \* reports a channel accepted from a dummy transmitter
    panic,          \* a call made by a caller has panicked
    report,         \* the Progress handed to Display::fmt
    shown,          \* what fmt has written for it, character by character
    ops             \* calls of the run's budget that are left

colVars == << topic, subscribers, lock >>
subVars == << nslots, rxDropped, buf, got, eos >>
pubVars == << held, chan, nsent >>
taskVars == << pc, item, idx, passes, pass >>
txVars == << flag, switches, flipped, txs, lost, viaDummy, panic >>
fmtVars == << report, shown >>

vars == << topic, subscribers, lock, nslots, rxDropped, buf, got, eos,
           held, chan, nsent, pc, item, idx, passes, pass,
           flag, switches, flipped, txs, lost, viaDummy, panic, report, shown,
           ops >>

Range(s) == { s[k] : k \in 1..Len(s) }

\* Removing the last element whatever the index (a pop).
RemoveLast(v, i) == SubSeq(v, 1, Len(v) - 1)

\* Vec::remove(i) with a 0-based index: shifts the tail left.
VecRemove(v, i) == [ k \in 1..(Len(v) - 1) |-> IF k <= i THEN v[k] ELSE v[k + 1] ]

\* Sequence q without its k-th element (a value moved out or dropped).
Without(q, k) == [ j \in 1..(Len(q) - 1) |-> IF j < k THEN q[j] ELSE q[j + 1] ]

Free == [kind |-> "free", id |-> Orphan]
ByTopic == [kind |-> "topic", id |-> Orphan]
ByTask(p) == [kind |-> "task", id |-> p]

NoPass == [subs |-> << >>, dead |-> {}, tried |-> << >>]

\* ---------------------------------------------------------------- Progress
\* Text is a sequence of characters.
\* The largest percent a Progress can hold: pct is a u8.
MaxPct == 255

\* The minimum field width of the percent in the format string.
Width == 3

Digits == << "0", "1", "2", "3", "4", "5", "6", "7", "8", "9" >>

\* The messages of the reports that are rendered.
FmtMsgs == { << >>,
             << "l", "o", "a", "d", "i", "n", "g" >>,
             << "d", "o", "n", "e" >> }

Reports == [pct : 0..MaxPct, msg : FmtMsgs]

NoReport == [pct |-> 0, msg |-> << >>]

\* u8's Display: decimal, no sign, no leading zeros.
RECURSIVE Decimal(_)
Decimal(n) ==
    IF n < 10 THEN << Digits[n + 1] >>
    ELSE Decimal(n \div 10) \o << Digits[(n % 10) + 1] >>

\* Padding on the right: the text is left-justified.
PadRight(s, w) ==
    IF Len(s) >= w THEN s ELSE s \o [k \in 1..(w - Len(s)) |-> " "]

\* {:>w}: text shorter than w is filled up with spaces on the left.
PadLeft(s, w) ==
    IF Len(s) >= w THEN s ELSE [k \in 1..(w - Len(s)) |-> " "] \o s

\* <Progress as Display>::fmt.
Fmt(r) ==
    IF r.msg = << >>
    THEN PadLeft(Decimal(r.pct), Width) \o << "%" >>
    ELSE PadLeft(Decimal(r.pct), Width) \o << "%", " ", "-", " " >> \o r.msg

\* ---------------------------------------------------------------- channels
\* Sender handles of publisher p's channel that exist: the callers' and
\* the ones inside transmitters.
Senders(p) == held[p] + Cardinality({ t \in 1..Len(txs) : txs[t].publisher = p })

\* A Receiver that goes with the Topic handle.
RxGoneWithTopic(c) ==
    c \notin Pubs \/ topic = "dropped" \/ pc[c] \in {"none", "done", "panicked"}

\* The Receiver of a publisher channel is owned by recv_publications and
\* dropped when it returns; a dummy's Receiver is dropped at construction.
RxGone(c) == c \notin Pubs \/ pc[c] \in {"none", "done", "panicked"}

\* Sender::send to slot s succeeds while its Receiver exists.
SendOk(s) == s \notin rxDropped

\* A clone that does not carry the value over.
CloneLosesValue(m) == NoItem

\* T::clone of the publication.
Clone(m) == m

\* A lock that never makes anybody wait.
LockIgnored == TRUE

\* A lock that forwarding threads share among themselves (a read lock).
LockShared == lock.kind # "topic"

\* Mutex::lock returns once nobody holds the lock.
LockFree == lock = Free

\* Threads that keep their Arc after they have returned.
ArcKeptByEnded(t, c) ==
    (IF t = "dropped" THEN 0 ELSE 1)
    + Cardinality({ p \in Pubs : c[p] # "none" })

\* Holders of the Arc around the collection: the Topic handle and every
\* forwarding thread that has not returned.
ArcHolders(t, c) ==
    (IF t = "dropped" THEN 0 ELSE 1)
    + Cardinality({ p \in Pubs : c[p] \notin {"none", "done", "panicked"} })

\* A collection that outlives its last holder.
Leaked(subs, t, c) == subs

\* A collection that goes with the Topic handle, whoever else holds it.
ReleasedWithTopic(subs, t, c) == IF t = "dropped" THEN << >> ELSE subs

\* Dropping the last Arc drops the Vec and with it every slot's Sender.
Released(subs, t, c) == IF ArcHolders(t, c) = 0 THEN << >> ELSE subs

\* ---------------------------------------------------------------- Topic
\* The topic after Topic::new, with a budget of n calls.
TopicNew(n) ==
    /\ topic = "live"
    /\ subscribers = << >>
    /\ lock = Free
    /\ nslots = 0
    /\ rxDropped = {}
    /\ buf = [s \in Slots |-> << >>]
    /\ got = [s \in Slots |-> << >>]
    /\ eos = {}
    /\ held = [p \in Pubs |-> 0]
    /\ chan = [p \in Pubs |-> << >>]
    /\ nsent = [p \in Pubs |-> 0]
    /\ pc = [p \in Pubs |-> "none"]
    /\ item = [p \in Pubs |-> NoItem]
    /\ idx = [p \in Pubs |-> 0]
    /\ passes = [p \in Pubs |-> 0]
    /\ pass = NoPass
    /\ flag = << >>
    /\ switches = << >>
    /\ flipped = {}
    /\ txs = << >>
    /\ lost = 0
    /\ viaDummy = {}
    /\ panic = FALSE
    /\ ops = n

\* The state after Topic::new: nothing is being rendered.
Start(n) ==
    /\ TopicNew(n)
    /\ report = NoReport
    /\ shown = << >>

Init == Start(MaxOps)

\* Topic::subscribe up to the point where the lock is acquired.
SubscribeLock ==
    /\ topic = "live"
    /\ ops > 0
    /\ LockFree
    /\ lock' = ByTopic
    /\ topic' = "locked"
    /\ ops' = ops - 1
    /\ UNCHANGED << subscribers, nslots, rxDropped, buf, got, eos >>
    /\ UNCHANGED << pubVars, taskVars, txVars >>
    /\ UNCHANGED fmtVars

\* Topic::subscribe: push the Sender, release the lock, return the Receiver.
SubscribePush ==
    /\ topic = "locked"
    /\ nslots' = nslots + 1
    /\ subscribers' = Append(subscribers, nslots + 1)
    /\ lock' = Free
    /\ topic' = "live"
    /\ UNCHANGED << rxDropped, buf, got, eos >>
    /\ UNCHANGED << pubVars, taskVars, txVars, ops >>
    /\ UNCHANGED fmtVars

\* Topic::add_publisher: a private channel, a thread running
\* recv_publications on its Receiver, the Sender returned.
AddPublisher(p) ==
    /\ topic = "live"
    /\ pc[p] = "none"
    /\ ops > 0
    /\ \A q \in Pubs : q < p => pc[q] # "none"
    /\ pc' = [pc EXCEPT ![p] = "recv"]
    /\ held' = [held EXCEPT ![p] = 1]
    /\ ops' = ops - 1
    /\ UNCHANGED << colVars, subVars, chan, nsent, item, idx, passes, pass, txVars >>
    /\ UNCHANGED fmtVars

\* The Topic handle goes out of scope.
DropTopic ==
    /\ topic = "live"
    /\ topic' = "dropped"
    /\ subscribers' = Released(subscribers, "dropped", pc)
    /\ UNCHANGED << lock, subVars, pubVars, taskVars, txVars, ops >>
    /\ UNCHANGED fmtVars

\* ---------------------------------------------------------------- publishers
\* A message carries, next to its value, the endpoint it was sent on and
\* its position among the sends of that endpoint.
\* Sender::send(v) on channel c: queued, or Err when the Receiver is gone.
ChanSend(c, v) ==
    IF RxGone(c)
    THEN UNCHANGED << chan, nsent >>
    ELSE /\ chan' = [chan EXCEPT ![c] =
                       Append(@, [pub |-> c, seq |-> nsent[c] + 1, val |-> v])]
         /\ nsent' = [nsent EXCEPT ![c] = @ + 1]

Send(p, v) ==
    /\ held[p] > 0
    /\ ops > 0
    /\ ChanSend(p, v)
    /\ ops' = ops - 1
    /\ UNCHANGED << colVars, subVars, held, taskVars, txVars >>
    /\ UNCHANGED fmtVars

ClonePublisher(p) ==
    /\ held[p] > 0
    /\ ops > 0
    /\ held' = [held EXCEPT ![p] = @ + 1]
    /\ ops' = ops - 1
    /\ UNCHANGED << colVars, subVars, chan, nsent, taskVars, txVars >>
    /\ UNCHANGED fmtVars

DropPublisher(p) ==
    /\ held[p] > 0
    /\ held' = [held EXCEPT ![p] = @ - 1]
    /\ UNCHANGED << colVars, subVars, chan, nsent, taskVars, txVars, ops >>
    /\ UNCHANGED fmtVars

\* ---------------------------------------------------------------- forwarding
\* Taking the newest publication instead of the oldest.
TakeLast(q) == q[Len(q)]

\* publisher.iter().next() yields the head of the channel.
TakeFrom(q) == Head(q)

Recv(p) ==
    /\ pc[p] = "recv"
    /\ chan[p] # << >>
    /\ item' = [item EXCEPT ![p] = TakeFrom(chan[p])]
    /\ chan' = [chan EXCEPT ![p] = Tail(@)]
    /\ pc' = [pc EXCEPT ![p] = "lock"]
    /\ UNCHANGED << colVars, subVars, held, nsent, idx, passes, pass, txVars, ops >>
    /\ UNCHANGED fmtVars

\* An iteration that ends as soon as the channel is empty.
EndsWhenEmpty(p) == chan[p] = << >>

\* publisher.iter() ends: the channel is empty and disconnected.
IterEnds(p) == chan[p] = << >> /\ Senders(p) = 0

Terminate(p) ==
    /\ pc[p] = "recv"
    /\ IterEnds(p)
    /\ pc' = [pc EXCEPT ![p] = "done"]
    /\ subscribers' = Released(subscribers, topic, pc')
    /\ UNCHANGED << topic, lock, subVars, pubVars, item, idx, passes, pass,
                    txVars, ops >>
    /\ UNCHANGED fmtVars

\* send_or_remove without its part after the loop.
AfterSkipsLast(subs, i) ==
    IF subs = << >> THEN "unlock"
    ELSE IF i < Len(subs) - 1 THEN "loop"
    ELSE "unlock"

\* A loop that goes on up to the last slot: i < len as its condition.
AfterOffByOne(subs, i) ==
    IF subs = << >> THEN "unlock"
    ELSE IF i < Len(subs) THEN "loop"
    ELSE "last"

\* send_or_remove without its early return on an empty collection.
AfterNoEmptyCheck(subs, i) ==
    IF i < Len(subs) - 1 THEN "loop" ELSE "last"

\* Where send_or_remove stands with cursor i on collection subs.
After(subs, i) ==
    IF subs = << >> THEN "unlock"
    ELSE IF i < Len(subs) - 1 THEN "loop"
    ELSE "last"

\* subs.lock(), then send_or_remove up to its first send.
Lock(p) ==
    /\ pc[p] = "lock"
    /\ LockFree
    /\ lock' = ByTask(p)
    /\ idx' = [idx EXCEPT ![p] = 0]
    /\ passes' = [passes EXCEPT ![p] = @ + 1]
    /\ pass' = [subs |-> subscribers, dead |-> rxDropped, tried |-> << >>]
    /\ pc' = [pc EXCEPT ![p] = After(subscribers, 0)]
    /\ UNCHANGED << topic, subscribers, subVars, pubVars, item, txVars, ops >>
    /\ UNCHANGED fmtVars

\* Moving the cursor on after a removal.
SkipNext(i) == i + 1

\* Stepping the cursor back after a removal.
StepBack(i) == IF i > 0 THEN i - 1 ELSE i

\* The cursor after a failed send: the slot that moved into place i is
\* the next one tried.
Retry(i) == i

\* One iteration of the while loop.
LoopStep(p) ==
    /\ pc[p] = "loop"
    /\ IF idx[p] >= Len(subscribers)
       THEN \* subscribers[i] is out of bounds
            /\ pc' = [pc EXCEPT ![p] = "panicked"]
            /\ lock' = Free
            /\ pass' = NoPass
            /\ subscribers' = Released(subscribers, topic, pc')
            /\ UNCHANGED << buf, idx >>
       ELSE /\ LET s == subscribers[idx[p] + 1] IN
               /\ pass' = [pass EXCEPT !.tried = Append(@, s)]
               /\ IF SendOk(s)
                  THEN /\ buf' = [buf EXCEPT ![s] = Append(@, Clone(item[p]))]
                       /\ idx' = [idx EXCEPT ![p] = @ + 1]
                       /\ subscribers' = subscribers
                  ELSE /\ subscribers' = VecRemove(subscribers, idx[p])
                       /\ idx' = [idx EXCEPT ![p] = Retry(@)]
                       /\ UNCHANGED buf
            /\ pc' = [pc EXCEPT ![p] = After(subscribers', idx'[p])]
            /\ UNCHANGED lock
    /\ UNCHANGED << topic, nslots, rxDropped, got, eos, pubVars, item, passes,
                    txVars, ops >>
    /\ UNCHANGED fmtVars

\* The part after the loop: the last slot gets the original.
LastStep(p) ==
    /\ pc[p] = "last"
    /\ IF subscribers = << >>
       THEN /\ pc' = [pc EXCEPT ![p] = "unlock"]
            /\ UNCHANGED << subscribers, buf, lock, pass >>
       ELSE IF Len(subscribers) - 1 # idx[p]
       THEN \* debug_assert_eq fails, or the index is out of bounds
            /\ pc' = [pc EXCEPT ![p] = "panicked"]
            /\ lock' = Free
            /\ pass' = NoPass
            /\ subscribers' = Released(subscribers, topic, pc')
            /\ UNCHANGED buf
       ELSE /\ LET s == subscribers[idx[p] + 1] IN
               /\ pass' = [pass EXCEPT !.tried = Append(@, s)]
               /\ IF SendOk(s)
                  THEN /\ buf' = [buf EXCEPT ![s] = Append(@, item[p])]
                       /\ subscribers' = subscribers
                  ELSE /\ subscribers' = VecRemove(subscribers, idx[p])
                       /\ buf' = buf
            /\ pc' = [pc EXCEPT ![p] = "unlock"]
            /\ UNCHANGED lock
    /\ UNCHANGED << topic, nslots, rxDropped, got, eos, pubVars, item,
                    idx, passes, txVars, ops >>
    /\ UNCHANGED fmtVars

\* send_or_remove has returned: the guard is dropped, the loop goes on.
Unlock(p) ==
    /\ pc[p] = "unlock"
    /\ lock' = Free
    /\ pass' = NoPass
    /\ pc' = [pc EXCEPT ![p] = "recv"]
    /\ item' = [item EXCEPT ![p] = NoItem]
    /\ idx' = [idx EXCEPT ![p] = 0]
    /\ UNCHANGED << topic, subscribers, subVars, pubVars, passes, txVars, ops >>
    /\ UNCHANGED fmtVars

\* ---------------------------------------------------------------- subscribers
\* The Sender of slot s is alive while it sits in the collection.
SlotSenderAlive(s) == s \in Range(subscribers)

\* What Receiver::recv does on slot s.
RecvOutcome(s) ==
    IF buf[s] # << >> THEN "message"
    ELSE IF SlotSenderAlive(s) THEN "blocks"
    ELSE "disconnected"

\* Receiver::recv on slot s yields a message.
SubRecv(s) ==
    /\ s <= nslots
    /\ s \notin rxDropped
    /\ RecvOutcome(s) = "message"
    /\ got' = [got EXCEPT ![s] = Append(@, Head(buf[s]))]
    /\ buf' = [buf EXCEPT ![s] = Tail(@)]
    /\ UNCHANGED << colVars, nslots, rxDropped, eos, pubVars, taskVars,
                    txVars, ops >>
    /\ UNCHANGED fmtVars

\* Receiver::recv on slot s reports disconnection.
SubRecvEnd(s) ==
    /\ s <= nslots
    /\ s \notin rxDropped
    /\ s \notin eos
    /\ RecvOutcome(s) = "disconnected"
    /\ eos' = eos \cup {s}
    /\ UNCHANGED << colVars, nslots, rxDropped, buf, got, pubVars,
                    taskVars, txVars, ops >>
    /\ UNCHANGED fmtVars

\* The Receiver of slot s is dropped (what it held goes with it).
DropSubscriber(s) ==
    /\ s <= nslots
    /\ s \notin rxDropped
    /\ rxDropped' = rxDropped \cup {s}
    /\ buf' = [buf EXCEPT ![s] = << >>]
    /\ got' = [got EXCEPT ![s] = << >>]
    /\ UNCHANGED << colVars, nslots, eos, pubVars, taskVars, txVars, ops >>
    /\ UNCHANGED fmtVars

\* ---------------------------------------------------------------- Switch
\* A switch that starts on.
SwitchOn == TRUE

\* Switch::off: a new AtomicBool holding false.
SwitchInit == FALSE

\* A clone that copies the AtomicBool instead of sharing it.
SwitchCopyOf(sw) == [cell |-> Len(flag) + 1, fam |-> sw.fam]

\* Switch::clone: an Arc::clone, the same AtomicBool.
SwitchCloneOf(sw) == sw

\* Switch::get.
Get(sw) == flag[sw.cell]

\* Switch::flip_on: store(true).
FlipStore == TRUE

SwitchOff ==
    /\ ops > 0
    /\ flag' = Append(flag, SwitchInit)
    /\ switches' = Append(switches, [cell |-> Len(flag) + 1, fam |-> Len(flag) + 1])
    /\ ops' = ops - 1
    /\ UNCHANGED << colVars, subVars, pubVars, taskVars, flipped, txs, lost,
                    viaDummy, panic >>
    /\ UNCHANGED fmtVars

SwitchClone(h) ==
    /\ h \in 1..Len(switches)
    /\ ops > 0
    /\ LET c == SwitchCloneOf(switches[h]) IN
       /\ flag' = IF c.cell > Len(flag) THEN Append(flag, flag[switches[h].cell])
                  ELSE flag
       /\ switches' = Append(switches, c)
    /\ ops' = ops - 1
    /\ UNCHANGED << colVars, subVars, pubVars, taskVars, flipped, txs, lost,
                    viaDummy, panic >>
    /\ UNCHANGED fmtVars

FlipOn(h) ==
    /\ h \in 1..Len(switches)
    /\ flag' = [flag EXCEPT ![switches[h].cell] = FlipStore]
    /\ flipped' = flipped \cup {switches[h].fam}
    /\ UNCHANGED << colVars, subVars, pubVars, taskVars, switches, txs, lost,
                    viaDummy, panic, ops >>
    /\ UNCHANGED fmtVars

\* ---------------------------------------------------------------- ProgressTx
\* ProgressTx::cancelled.
Cancelled(t) == Get(txs[t].cancel)

\* ProgressTx::new: the publisher and the switch move into the transmitter.
TxNew(p, h) ==
    /\ held[p] > 0
    /\ h \in 1..Len(switches)
    /\ ops > 0
    /\ txs' = Append(txs, [publisher |-> p, cancel |-> switches[h], dummy |-> FALSE])
    /\ held' = [held EXCEPT ![p] = @ - 1]
    /\ switches' = Without(switches, h)
    /\ ops' = ops - 1
    /\ UNCHANGED << colVars, subVars, chan, nsent, taskVars, flag, flipped,
                    lost, viaDummy, panic >>
    /\ UNCHANGED fmtVars

\* The channel a dummy is bound to: unbounded().0, the Receiver dropped.
DummyChannel == Orphan

\* ProgressTx::dummy.
TxDummy ==
    /\ ops > 0
    /\ flag' = Append(flag, SwitchInit)
    /\ txs' = Append(txs, [publisher |-> DummyChannel,
                           cancel |-> [cell |-> Len(flag) + 1, fam |-> Len(flag) + 1],
                           dummy |-> TRUE])
    /\ ops' = ops - 1
    /\ UNCHANGED << colVars, subVars, pubVars, taskVars, switches, flipped,
                    lost, viaDummy, panic >>
    /\ UNCHANGED fmtVars

\* #[derive(Clone)]: the publisher and the switch are cloned.
TxClone(t) ==
    /\ t \in 1..Len(txs)
    /\ ops > 0
    /\ LET c == SwitchCloneOf(txs[t].cancel) IN
       /\ flag' = IF c.cell > Len(flag) THEN Append(flag, flag[txs[t].cancel.cell])
                  ELSE flag
       /\ txs' = Append(txs, [txs[t] EXCEPT !.cancel = c])
    /\ ops' = ops - 1
    /\ UNCHANGED << colVars, subVars, pubVars, taskVars, switches, flipped,
                    lost, viaDummy, panic >>
    /\ UNCHANGED fmtVars

TxDrop(t) ==
    /\ t \in 1..Len(txs)
    /\ txs' = Without(txs, t)
    /\ UNCHANGED << colVars, subVars, pubVars, taskVars, flag, switches,
                    flipped, lost, viaDummy, panic, ops >>
    /\ UNCHANGED fmtVars

\* Unwrapping the result of the send: a failed send panics.
Unwrap(failed) == failed

\* What send_report makes of a failed send: .ok() drops the Err.
Swallow(failed) == FALSE

\* ProgressTx::send_report.
TxSendReport(t, r) ==
    /\ t \in 1..Len(txs)
    /\ ops > 0
    /\ LET c == txs[t].publisher
           failed == RxGone(c)
       IN /\ ChanSend(c, r)
          /\ lost' = IF failed THEN lost + 1 ELSE lost
          /\ panic' = (panic \/ Swallow(failed))
          /\ viaDummy' = IF txs[t].dummy /\ ~failed
                         THEN viaDummy \cup {r} ELSE viaDummy
    /\ ops' = ops - 1
    /\ UNCHANGED << colVars, subVars, held, taskVars, flag, switches, flipped, txs >>
    /\ UNCHANGED fmtVars

\* The report ProgressTx::send builds: an absent percent is 0.
MkProgress(pct, msg) == [pct |-> IF pct = None THEN 0 ELSE pct, msg |-> msg]

\* ProgressTx::send.
TxSend(t, pct, msg) == TxSendReport(t, MkProgress(pct, msg))

\* ---------------------------------------------------------------- system
Task(p) ==
    \/ Recv(p)
    \/ Terminate(p)
    \/ Lock(p)
    \/ LoopStep(p)
    \/ LastStep(p)
    \/ Unlock(p)

TopicNext ==
    \/ SubscribeLock
    \/ SubscribePush
    \/ DropTopic
    \/ \E p \in Pubs : AddPublisher(p)
    \/ \E p \in Pubs : \E v \in Payloads : Send(p, v)
    \/ \E p \in Pubs : ClonePublisher(p)
    \/ \E p \in Pubs : DropPublisher(p)
    \/ \E p \in Pubs : Task(p)
    \/ \E s \in Slots : SubRecv(s)
    \/ \E s \in Slots : SubRecvEnd(s)
    \/ \E s \in Slots : DropSubscriber(s)

TxNext ==
    \/ SwitchOff
    \/ \E h \in 1..MaxOps : SwitchClone(h)
    \/ \E h \in 1..MaxOps : FlipOn(h)
    \/ \E p \in Pubs : \E h \in 1..MaxOps : TxNew(p, h)
    \/ TxDummy
    \/ \E t \in 1..MaxOps : TxClone(t)
    \/ \E t \in 1..MaxOps : TxDrop(t)
    \/ \E t \in 1..MaxOps : \E r \in Payloads : TxSendReport(t, r)
    \/ \E t \in 1..MaxOps : \E pct \in PctInputs : \E msg \in MsgInputs : TxSend(t, pct, msg)

Next == TopicNext

Spec == Init /\ [][Next]_vars

\* Runs with transmitters and switches next to the topic.
TxInit == Start(TxOps)

TxSpec == TxInit /\ [][TopicNext \/ TxNext]_vars

\* Runs under fair scheduling: every forwarding thread that can take a
\* step eventually takes one, and so does a caller inside subscribe.
LiveInit == Start(LiveOps)

Fairness ==
    /\ \A p \in Pubs : WF_vars(Task(p))
    /\ WF_vars(SubscribePush)

FairSpec == LiveInit /\ [][Next]_vars /\ Fairness

\* Rendering: a Progress of any percent and message is formatted once.
Display ==
    /\ shown = << >>
    /\ shown' = Fmt(report)
    /\ UNCHANGED << colVars, subVars, pubVars, taskVars, txVars, report, ops >>

FmtInit ==
    /\ TopicNew(0)
    /\ report \in Reports
    /\ shown = << >>

FmtSpec == FmtInit /\ [][Display]_vars

\* ---------------------------------------------------------------- properties
\* Everything subscriber s has been handed, in order: what it has taken
\* out of its channel, then what still waits there.
Log(s) == got[s] \o buf[s]

\* Messages that publisher endpoints can have sent.
Msgs == [pub : Pubs, seq : 1..MaxOps, val : Payloads]

\* m has been sent and its fan-out pass is not over.
Pending(m) ==
    \/ m \in Range(chan[m.pub])
    \/ item[m.pub] = m /\ pc[m.pub] \in {"lock", "loop", "last"}

\* The Receiver of slot s is held by its subscriber.
Listening(s) == s \in Range(subscribers) /\ s \notin rxDropped

\* The pairs (s, m) where m is on its way to the registered subscriber s.
Owed == { x \in Slots \X Msgs :
            Pending(x[2]) /\ Listening(x[1]) /\ x[2] \notin Range(Log(x[1])) }

\* C1: under fair scheduling, a message sent on a publisher endpoint while
\* a subscriber is registered reaches that subscriber, with the value that
\* was sent, unless the subscriber drops its receiver; whether the
\* publisher or the Topic handle is dropped after the send does not matter.
\* In two parts: a message stops being on its way to a subscriber only by
\* being handed to it or by the receiver's drop, and no message stays on
\* its way for ever.
C1_EveryoneGetsIt ==
    /\ [][ \A x \in Owed :
             \/ x[2] \in Range(got'[x[1]] \o buf'[x[1]])
             \/ x[1] \in rxDropped'
             \/ x \in Owed' ]_vars
    /\ []<>(Owed = {})

\* C1 witness: two subscribers hold the message of a publisher whose
\* endpoint and Topic handle are both gone.
C1_Witness ==
    \E m \in Msgs :
        /\ topic = "dropped"
        /\ held[m.pub] = 0
        /\ \E s1, s2 \in Slots : s1 # s2 /\ m \in Range(Log(s1)) /\ m \in Range(Log(s2))

\* C2: a subscriber is handed the messages of one publisher endpoint in
\* the order they were sent.
C2_FifoPerPublisher ==
    \A s \in Slots : \A i, j \in 1..Len(Log(s)) :
        (i < j /\ Log(s)[i].pub = Log(s)[j].pub) => Log(s)[i].seq < Log(s)[j].seq

\* C2 witness: a subscriber has received two messages of one publisher
\* with a message of another publisher between them.
C2_Witness ==
    \E s \in Slots :
        /\ Len(got[s]) = 3
        /\ got[s][1].pub = got[s][3].pub
        /\ got[s][2].pub # got[s][1].pub

\* subscribe() calls made so far, the one in progress included.
Started == nslots + (IF topic = "locked" THEN 1 ELSE 0)

\* m has been accepted by its publisher endpoint: the send has returned.
Sent(m) == m.seq <= nsent[m.pub]

\* C3 as first stated: a subscriber that calls subscribe() after the send
\* of a message has returned is never handed that message.
C3_NoBackfillFromSend ==
    \A m \in Msgs : \A s \in Slots :
        []((Sent(m) /\ s > Started) => [](m \notin Range(Log(s))))

\* C3: there is no backfill from the fan-out pass on: a message is handed
\* out only by the pass that holds the lock for it, only to slots that
\* were in the collection when that pass took the lock, and every message
\* taken from a publisher's channel gets one pass. A subscriber whose slot
\* is pushed after the pass of a message began never receives it, and a
\* message whose pass finds the collection empty reaches nobody.
C3_NoBackfillFromPass ==
    /\ [][ \A s \in Slots :
             buf'[s] # buf[s] /\ Len(buf'[s]) >= Len(buf[s]) =>
                \E p \in Pubs :
                    /\ lock = ByTask(p)
                    /\ s \in Range(pass.subs)
                    /\ buf'[s] = Append(buf[s], item[p]) ]_vars
    /\ [](\A p \in Pubs :
            passes[p] = nsent[p] - Len(chan[p]) - (IF pc[p] = "lock" THEN 1 ELSE 0))

\* C3 witness: the pass of the only message is over, an early subscriber
\* holds it, and a subscriber that joined later listens and holds nothing.
C3_Witness ==
    \E p \in Pubs : \E s0, s1 \in Slots :
        /\ nsent[p] = 1 /\ passes[p] = 1 /\ pc[p] = "recv"
        /\ s0 < s1
        /\ Len(Log(s0)) = 1
        /\ Listening(s1) /\ Log(s1) = << >>

\* Slots whose Receiver the subscriber still holds.
Receivers == { s \in Slots : s <= nslots /\ s \notin rxDropped }

\* Every publisher endpoint made has been dropped and its thread has ended.
PublishersEnded ==
    /\ pc[1] # "none"
    /\ \A p \in Pubs : pc[p] \in {"none", "done"}

\* C4 as first stated: once the last publisher endpoint is dropped and its
\* forwarding thread has ended, receive on an empty buffer reports
\* end-of-stream.
C4_EndWhenPublishersEnd ==
    PublishersEnded =>
        \A s \in Receivers : buf[s] = << >> => RecvOutcome(s) = "disconnected"

\* C4: once the Topic handle is dropped as well, receive on an empty
\* buffer reports end-of-stream instead of blocking.
C4_EndWhenTopicAndPublishersEnd ==
    (topic = "dropped" /\ PublishersEnded) =>
        \A s \in Receivers : buf[s] = << >> => RecvOutcome(s) = "disconnected"

\* C4 witness: a subscriber has been told end-of-stream after a publisher
\* delivered to it and ended.
C4_Witness ==
    \E s \in Receivers :
        /\ s \in eos
        /\ got[s] # << >>
        /\ topic = "dropped" /\ PublishersEnded

\* The slots of the pass in progress whose Receiver was dropped before the
\* pass took the lock, and those dropped since.
DeadAtLock == Range(pass.subs) \cap pass.dead
DroppedSince == (Range(pass.subs) \cap rxDropped) \ pass.dead

\* C5: a pass that starts on k slots of which exactly one has lost its
\* receiver (and none loses it during the pass) ends without a panic,
\* with k-1 slots, the dead one gone, and the message handed to every
\* other slot.
C5_OneDeadSlot ==
    /\ \A p \in Pubs : pc[p] # "panicked"
    /\ \A p \in Pubs :
        (pc[p] = "unlock" /\ Cardinality(DeadAtLock) = 1 /\ DroppedSince = {}) =>
            /\ Len(subscribers) = Len(pass.subs) - 1
            /\ Range(subscribers) = Range(pass.subs) \ DeadAtLock
            /\ \A s \in Range(subscribers) : item[p] \in Range(Log(s))

\* C5 witness: a pass over three slots, the middle one dead, has ended.
C5_Witness ==
    \E p \in Pubs :
        /\ pc[p] = "unlock"
        /\ Len(pass.subs) = 3
        /\ DeadAtLock = {pass.subs[2]}
        /\ DroppedSince = {}

\* C6: the pass that starts after a receiver is dropped removes its slot;
\* a pass tries only slots that were in the collection when it took the
\* lock; and a slot that has left the collection never comes back.
C6_PrunedForGood ==
    /\ [](\A p \in Pubs : pc[p] = "unlock" => Range(subscribers) \cap pass.dead = {})
    /\ [](Range(pass.tried) \subseteq Range(pass.subs))
    /\ [][ \A s \in Slots :
             (s <= nslots /\ s \notin Range(subscribers)) =>
                 s \notin Range(subscribers') ]_vars

\* C6 witness: a second pass is under way on a collection from which an
\* earlier pass removed a dropped subscriber.
C6_Witness ==
    \E p \in Pubs : \E s \in rxDropped :
        /\ passes[p] = 2
        /\ pc[p] \in {"loop", "last"}
        /\ s \notin Range(pass.subs)
        /\ pass.subs # << >>

\* Threads that are running although no Sender of their channel is left.
Orphaned == { p \in Pubs : pc[p] \notin {"none", "done"} /\ Senders(p) = 0 }

\* C7: a forwarding thread has ended only if no Sender of its channel is
\* left, its channel is empty and every message sent got its pass; and
\* under fair scheduling a thread whose Senders are all gone ends.
C7_TaskEnds ==
    /\ [](\A p \in Pubs :
            pc[p] = "done" =>
                Senders(p) = 0 /\ chan[p] = << >> /\ passes[p] = nsent[p])
    /\ [](\A p \in Pubs : Senders(p) > 0 => pc[p] \notin {"none", "done"})
    /\ []<>(Orphaned = {})

\* C7 witness: the only thread has ended after a clone of its endpoint was
\* made (the fifth call, next to subscribe, add_publisher and two sends)
\* and both messages were handed to the subscriber.
C7_Witness ==
    /\ pc[1] = "done" /\ pc[2] = "none"
    /\ nsent[1] = 2
    /\ Started = 1
    /\ Len(Log(1)) = 2
    /\ ops = LiveOps - 5

\* Every Switch there is: the callers' and the transmitters'.
AllSwitches == Range(switches) \cup { txs[t].cancel : t \in 1..Len(txs) }

\* C8: a switch reads true exactly when flip_on has been called on a
\* clone of it, whichever clone, and so does cancelled() of a transmitter
\* built from it; flipped only grows, so a switch never goes back off.
C8_SwitchSharedMonotonic ==
    /\ \A sw \in AllSwitches : Get(sw) = (sw.fam \in flipped)
    /\ \A t \in 1..Len(txs) : Cancelled(t) = (txs[t].cancel.fam \in flipped)

\* C8 witness: a flipped switch with a clone held by a caller and another
\* inside a transmitter, next to a switch that is still off.
C8_Witness ==
    /\ \E t \in 1..Len(txs) : \E sw \in Range(switches) :
          sw.fam = txs[t].cancel.fam /\ sw.fam \in flipped /\ Cancelled(t)
    /\ \E sw \in AllSwitches : ~Get(sw)

\* C9: a dummy transmitter and its clones are never cancelled, sending
\* through them never panics, and no channel accepts what they send.
C9_Dummy ==
    /\ \A t \in 1..Len(txs) : txs[t].dummy => ~Cancelled(t)
    /\ ~panic
    /\ viaDummy = {}
    /\ \A t \in 1..Len(txs) : txs[t].dummy => RxGone(txs[t].publisher)

\* C9 witness: a dummy and its clone have sent, while a caller's switch
\* is on and a subscriber listens.
C9_Witness ==
    /\ Cardinality({ t \in 1..Len(txs) : txs[t].dummy }) = 2
    /\ lost >= 1
    /\ flipped # {}

\* C10: a send_report whose send fails discards the report: no panic, and
\* the collection, the subscribers' channels, the publishers' channels and
\* the switches stay as they are.
C10_BestEffort ==
    [][ lost' # lost =>
          /\ ~panic'
          /\ UNCHANGED << subscribers, buf, got, chan, nsent, flag, flipped, txs >> ]_vars

\* C10 witness: a report was discarded while a subscriber was listening
\* on a topic with a live publisher.
C10_Witness ==
    /\ lost >= 1
    /\ \E s \in Slots : Listening(s)
    /\ \E p \in Pubs : pc[p] = "recv"

\* The number of decimal digits of a percent.
NumDigits(p) == IF p < 10 THEN 1 ELSE IF p < 100 THEN 2 ELSE 3

\* The weight of the k-th character of a three-character number.
PlaceValue(k) == IF k = 1 THEN 100 ELSE IF k = 2 THEN 10 ELSE 1

\* C11: the rendering of percent p and message m is p in decimal,
\* right-justified with spaces in three characters, then "%", then, only
\* when m is not empty, " - " and m; values above 100 are rendered as they
\* are. (50, "") gives " 50%", (7, "loading") gives "  7% - loading" and
\* (100, "done") gives "100% - done".
C11_Display ==
    shown # << >> =>
        LET p == report.pct
            m == report.msg
            blanks == 3 - NumDigits(p)
        IN /\ Len(shown) = 4 + (IF m = << >> THEN 0 ELSE 3 + Len(m))
           /\ \A k \in 1..blanks : shown[k] = " "
           /\ \A k \in (blanks + 1)..3 :
                 shown[k] = Digits[((p \div PlaceValue(k)) % 10) + 1]
           /\ shown[4] = "%"
           /\ m # << >> =>
                 /\ SubSeq(shown, 5, 7) = << " ", "-", " " >>
                 /\ SubSeq(shown, 8, Len(shown)) = m
           /\ (p = 50 /\ m = << >>) => shown = << " ", "5", "0", "%" >>
           /\ (p = 7 /\ m = << "l", "o", "a", "d", "i", "n", "g" >>) =>
                 shown = << " ", " ", "7", "%", " ", "-", " ",
                            "l", "o", "a", "d", "i", "n", "g" >>
           /\ (p = 100 /\ m = << "d", "o", "n", "e" >>) =>
                 shown = << "1", "0", "0", "%", " ", "-", " ", "d", "o", "n", "e" >>

\* C11 witness: a percent above 100 has been rendered with a message.
C11_Witness ==
    /\ report = [pct |-> 255, msg |-> << "d", "o", "n", "e" >>]
    /\ shown = << "2", "5", "5", "%", " ", "-", " ", "d", "o", "n", "e" >>

\* How many times message m is in the sequence q.
Count(m, q) == Cardinality({ k \in 1..Len(q) : q[k] = m })

\* Slot s is in the collection.
Kept(s) == s \in Range(subscribers)

\* C12: one pass tries every slot of the collection it locked exactly
\* once, in order; at its end every slot whose receiver is live holds the
\* message exactly once, every slot whose receiver was dropped before the
\* pass is gone, no other slot has come in, and the slots that are left
\* are in their original order.
C12_OnePass ==
    \A p \in Pubs :
        /\ pc[p] \in {"loop", "last", "unlock"} =>
              /\ Len(pass.tried) <= Len(pass.subs)
              /\ pass.tried = SubSeq(pass.subs, 1, Len(pass.tried))
        /\ pc[p] = "unlock" =>
              /\ pass.tried = pass.subs
              /\ subscribers = SelectSeq(pass.subs, Kept)
              /\ Range(pass.subs) \ rxDropped \subseteq Range(subscribers)
              /\ Range(subscribers) \cap pass.dead = {}
              /\ \A s \in Range(pass.subs) \ rxDropped : Count(item[p], Log(s)) = 1

\* C12 witness: a pass over three slots has ended, the first and the last
\* of them dead, the middle one live.
C12_Witness ==
    \E p \in Pubs :
        /\ pc[p] = "unlock"
        /\ Len(pass.subs) = 3
        /\ DeadAtLock = {pass.subs[1], pass.subs[3]}
        /\ subscribers = << pass.subs[2] >>
        /\ DroppedSince = {}

\* The forwarding threads that are inside a fan-out pass.
InPass == { p \in Pubs : pc[p] \in {"loop", "last", "unlock"} }

\* The forwarding threads that wait for the lock.
Waiting == { p \in Pubs : pc[p] = "lock" }

\* C13: passes and subscribe() exclude one another. At most one thread is
\* inside a pass, and it is the one that holds the lock; a subscribe() is
\* inside its critical section only while it holds the lock. A slot is
\* pushed only by the subscribe() that holds the lock, so never during a
\* pass; a delivery is made only by the thread that holds the lock, with
\* its own message, and the lock does not change hands between the
\* deliveries of one pass. A thread that finds the lock taken waits where
\* it is: nothing panics, and under fair scheduling no thread waits for
\* ever.
C13_MutualExclusion ==
    /\ [](/\ Cardinality(InPass) <= 1
          /\ \A p \in Pubs : (lock = ByTask(p)) <=> (p \in InPass)
          /\ (lock = ByTopic) <=> (topic = "locked")
          /\ \A p \in Pubs : pc[p] # "panicked"
          /\ ~panic)
    /\ [][ /\ Len(subscribers') > Len(subscribers) =>
                lock = ByTopic /\ InPass = {} /\ InPass' = {}
           /\ \A s \in Slots :
                Len(buf'[s]) > Len(buf[s]) =>
                    \E p \in Pubs :
                        /\ InPass = {p} /\ InPass' = {p}
                        /\ lock = ByTask(p) /\ lock' = ByTask(p)
                        /\ pass'.subs = pass.subs
                        /\ buf'[s][Len(buf'[s])] = item[p]
           /\ \A p \in Waiting :
                lock # Free => (p \in Waiting' \/ lock' = ByTask(p)) ]_vars
    /\ []<>(Waiting = {})

\* C13 witness: one thread is inside its pass over a registered slot
\* while another thread, its message taken, waits for the lock.
C13_Witness ==
    \E p, q \in Pubs :
        /\ p # q
        /\ pc[p] = "last" /\ Len(pass.subs) = 1 /\ lock = ByTask(p)
        /\ q \in Waiting /\ item[q] # NoItem

\* C14: a pass that finds the collection empty drops the message. Taking
\* the lock on an empty collection leads straight to the return of
\* send_or_remove: no slot is tried, no channel and no collection changes,
\* no thread panics; while the pass lasts the collection stays empty and
\* nobody holds the message; and the return takes the thread back to its
\* channel for the next message.
C14_EmptyPass ==
    /\ [](\A p \in Pubs :
            /\ pc[p] # "panicked"
            /\ (lock = ByTask(p) /\ pass.subs = << >>) =>
                  /\ pc[p] = "unlock"
                  /\ pass.tried = << >>
                  /\ subscribers = << >>
                  /\ \A s \in Slots : item[p] \notin Range(Log(s)))
    /\ [][ \A p \in Pubs :
             /\ (Lock(p) /\ subscribers = << >>) =>
                   /\ pc'[p] = "unlock"
                   /\ UNCHANGED << subscribers, buf, got, chan >>
             /\ (Unlock(p) /\ pass.subs = << >>) =>
                   /\ pc'[p] = "recv"
                   /\ lock' = Free
                   /\ UNCHANGED << subscribers, buf, got, chan >> ]_vars

\* C14 witness: the only subscriber there has been holds the second
\* message of a publisher and not the first, whose pass found nobody.
C14_Witness ==
    /\ nslots = 1
    /\ passes[1] = 2
    /\ Len(Log(1)) = 1
    /\ Log(1)[1].seq = 2
    /\ Listening(1)

\* The collection has lost its last holder in this step.
Destroyed == ArcHolders(topic, pc) > 0 /\ ArcHolders(topic', pc') = 0

\* C15: for as long as the collection exists, a slot leaves it only in a
\* step of the pass that holds the lock, which removes the slot under its
\* cursor after the send to it failed, and nothing else. Dropping a
\* receiver, dropping or cloning a publisher endpoint, add_publisher, send
\* and the first half of subscribe() leave the collection as it is;
\* subscribe() appends one slot that was never in it and leaves the others
\* in place. (The collection as a whole goes with its last holder.)
C15_LazyRemoval ==
    [][ /\ \A s \in Slots : DropSubscriber(s) => subscribers' = subscribers
        /\ \A p \in Pubs :
              (\/ DropPublisher(p) \/ ClonePublisher(p) \/ AddPublisher(p)
               \/ \E v \in Payloads : Send(p, v)) => subscribers' = subscribers
        /\ SubscribeLock => subscribers' = subscribers
        /\ SubscribePush =>
              /\ Len(subscribers') = Len(subscribers) + 1
              /\ SubSeq(subscribers', 1, Len(subscribers)) = subscribers
              /\ subscribers'[Len(subscribers')] \notin 1..nslots
        /\ (subscribers' # subscribers /\ ~Destroyed) =>
              \/ SubscribePush
              \/ \E p \in Pubs :
                    /\ lock = ByTask(p)
                    /\ pc[p] \in {"loop", "last"}
                    /\ subscribers[idx[p] + 1] \in rxDropped
                    /\ subscribers' = VecRemove(subscribers, idx[p])
                    /\ Range(subscribers') = Range(subscribers) \ {subscribers[idx[p] + 1]}
                    /\ buf' = buf
        /\ Destroyed => subscribers' = << >> ]_vars

\* C15 witness: a subscriber has dropped its receiver, the publisher has
\* been cloned and has sent, and the dead slot is still in the collection
\* next to a later subscriber's.
C15_Witness ==
    /\ Len(subscribers) = 2
    /\ subscribers[1] \in rxDropped
    /\ subscribers[2] \notin rxDropped
    /\ held[1] = 2
    /\ chan[1] # << >>

\* C16: inside send_or_remove the cursor never leaves the collection.
\* While the loop runs there is a slot after the one under the cursor;
\* when the loop has ended the collection is not empty and the cursor is
\* on its last slot, so the assertion holds, subscribers[i] is in bounds
\* and len - 1 is never taken of an empty collection; no thread panics.
C16_CursorInBounds ==
    \A p \in Pubs :
        /\ pc[p] # "panicked"
        /\ pc[p] = "loop" =>
              /\ Len(subscribers) >= 2
              /\ idx[p] < Len(subscribers) - 1
        /\ pc[p] = "last" =>
              /\ subscribers # << >>
              /\ idx[p] = Len(subscribers) - 1
        /\ pc[p] \in {"loop", "last"} =>
              /\ idx[p] >= 0
              /\ idx[p] + 1 \in DOMAIN subscribers
              /\ lock = ByTask(p)

\* C16 witness: the loop has ended on the last slot of a collection that
\* had four slots at lock time and lost two of them in the loop.
C16_Witness ==
    \E p \in Pubs :
        /\ pc[p] = "last"
        /\ Len(pass.subs) = 4
        /\ Len(subscribers) = 2
        /\ idx[p] = 1

\* The position of message m in the sequence q, and 0 when it is not there.
Pos(m, q) == IF m \in Range(q) THEN CHOOSE k \in 1..Len(q) : q[k] = m ELSE 0

\* C17: two subscribers that both hold two messages, of one publisher or
\* of two, hold them in the same order.
C17_SameOrder ==
    \A s1, s2 \in 1..nslots :
        s1 < s2 =>
            \A i, j \in 1..Len(Log(s1)) :
                LET a == Log(s1)[i]
                    b == Log(s1)[j]
                IN (i < j /\ Pos(a, Log(s2)) > 0 /\ Pos(b, Log(s2)) > 0) =>
                       Pos(a, Log(s2)) < Pos(b, Log(s2))

\* C17 witness: two subscribers hold the same two messages, one of each
\* of two publishers.
C17_Witness ==
    \E s1, s2 \in Slots :
        /\ s1 < s2
        /\ Len(Log(s1)) = 2
        /\ Log(s1) = Log(s2)
        /\ Log(s1)[1].pub # Log(s1)[2].pub

\* C18: no duplication and no invention. Every message a subscriber holds
\* was sent on a publisher endpoint of the topic (its endpoint exists and
\* has accepted that many sends, its value is one that was sent) and is
\* held once. What is held comes from what was sent: a publisher's
\* channel only grows by the message of an accepted send and only shrinks
\* by the message its thread takes, and a subscriber's channel only grows
\* by the message of the thread that holds the lock.
C18_NoDupNoInvention ==
    /\ [](\A s \in 1..nslots : \A k \in 1..Len(Log(s)) :
            LET m == Log(s)[k] IN
                /\ m.pub \in Pubs
                /\ pc[m.pub] # "none"
                /\ m.seq \in 1..nsent[m.pub]
                /\ m.val \in Payloads
                /\ Count(m, Log(s)) = 1)
    /\ [][ /\ \A p \in Pubs :
                \/ chan'[p] = chan[p]
                \/ /\ \E v \in Payloads : Send(p, v)
                   /\ Len(chan'[p]) = Len(chan[p]) + 1
                   /\ SubSeq(chan'[p], 1, Len(chan[p])) = chan[p]
                   /\ chan'[p][Len(chan'[p])].pub = p
                   /\ chan'[p][Len(chan'[p])].seq = nsent'[p]
                \/ /\ Recv(p)
                   /\ chan[p] = << item'[p] >> \o chan'[p]
           /\ \A s \in Slots :
                \/ Log(s)' = Log(s)
                \/ DropSubscriber(s) /\ Log(s)' = << >>
                \/ \E p \in Pubs :
                      /\ lock = ByTask(p)
                      /\ item[p] \notin Range(Log(s))
                      /\ Log(s)' = Append(Log(s), item[p]) ]_vars

\* C18 witness: a subscriber holds three messages while the slot of a
\* subscriber that dropped its receiver has been removed.
C18_Witness ==
    \E s \in Slots : \E d \in rxDropped :
        /\ Len(Log(s)) = 3
        /\ d \notin Range(subscribers)
        /\ d < s

\* The reports that transmitters send.
SentReports ==
    Payloads \cup { MkProgress(pct, msg) : pct \in PctInputs, msg \in MsgInputs }

\* C19: a send on an endpoint made by add_publisher never fails. While a
\* Sender of the endpoint exists, in a caller's hands or inside a
\* transmitter, its thread runs and holds the Receiver, whether the Topic
\* handle is there or not; a send is possible at once and is accepted; a
\* report sent through a transmitter bound to the endpoint is not lost.
C19_SendNeverFails ==
    /\ [](\A p \in Pubs :
            Senders(p) > 0 =>
                /\ ~RxGone(p)
                /\ pc[p] \in {"recv", "lock", "loop", "last", "unlock"}
                /\ (held[p] > 0 /\ ops > 0) =>
                      \A v \in Payloads : ENABLED Send(p, v))
    /\ [][ /\ \A p \in Pubs : \A v \in Payloads :
                Send(p, v) =>
                    /\ nsent'[p] = nsent[p] + 1
                    /\ chan'[p] = Append(chan[p],
                                         [pub |-> p, seq |-> nsent'[p], val |-> v])
           /\ \A t \in 1..Len(txs) : \A r \in SentReports :
                (TxSendReport(t, r) /\ txs[t].publisher \in Pubs) =>
                    /\ lost' = lost
                    /\ ~panic'
                    /\ nsent'[txs[t].publisher] = nsent[txs[t].publisher] + 1 ]_vars

\* C19 witness: the Topic handle is gone, the only Sender of an endpoint
\* is inside a transmitter, and what was sent through it was accepted.
C19_Witness ==
    \E t \in 1..Len(txs) :
        LET p == txs[t].publisher IN
            /\ p \in Pubs
            /\ topic = "dropped"
            /\ held[p] = 0
            /\ nsent[p] >= 1
            /\ lost = 0
            /\ pc[p] = "recv"

\* The Topic handle and every Sender of every publisher endpoint are
\* dropped, and every forwarding thread has ended.
TornDown ==
    /\ topic = "dropped"
    /\ \A p \in Pubs : pc[p] \in {"none", "done"} /\ Senders(p) = 0

\* C20: after teardown no slot is left and nothing is left to fan out: the
\* collection is released, the lock is free and the publishers' channels
\* are drained. A subscriber that still holds its receiver never blocks:
\* receive yields the head of what is buffered while something is, then
\* end-of-stream. What it holds no longer changes, so it takes the
\* remaining messages in the order they were handed to it, and
\* end-of-stream is reported only on an empty buffer. Teardown is final.
C20_Teardown ==
    /\ [](TornDown =>
            /\ subscribers = << >>
            /\ lock = Free
            /\ \A p \in Pubs : chan[p] = << >> /\ passes[p] = nsent[p]
            /\ \A s \in Receivers :
                  RecvOutcome(s) = IF buf[s] = << >> THEN "disconnected" ELSE "message")
    /\ [](\A s \in eos \ rxDropped : buf[s] = << >> /\ ~SlotSenderAlive(s))
    /\ [][ TornDown =>
             /\ TornDown'
             /\ \A s \in Receivers :
                   /\ s \notin rxDropped' => Log(s)' = Log(s)
                   /\ SubRecv(s) =>
                         /\ got'[s] = Append(got[s], Head(buf[s]))
                         /\ buf'[s] = Tail(buf[s])
                   /\ s \in eos' => buf[s] = << >> ]_vars

\* C20 witness: after teardown one subscriber has taken its two messages
\* and been told end-of-stream while another still has both in its buffer.
C20_Witness ==
    /\ TornDown
    /\ \E s1, s2 \in Receivers :
          /\ s1 \in eos /\ Len(got[s1]) = 2
          /\ Len(buf[s2]) = 2 /\ got[s2] = << >>
          /\ buf[s2] = got[s1]

====
